---- MODULE Spec2Model ----
(***************************************************************************)
(* Model of the metrics aggregation and scoring engine of                  *)
(* src/src/transformation/calculators.py (BusinessMetricsCalculator): the  *)
(* health scorer, the portfolio aggregation, the executive summary and     *)
(* the runs of run_full_transformation over the files of data/raw and      *)
(* data/analytics.                                                         *)
(*                                                                         *)
(* Floating point values are modelled as exact reduced rationals extended  *)
(* with nan, +inf and -inf, with the comparison and arithmetic rules of    *)
(* IEEE-754 as pandas/numpy apply them (a comparison with nan is false,    *)
(* x/0 is +-inf, 0/0 is nan).  Datetimes are integers counting ticks,      *)
(* TicksPerDay ticks to the day, so that Timedelta.days is a real floor.   *)
(* The clock does not move during a run; it may move between two runs.     *)
(* An exception ends the run in pc = "failed" with its name in result.     *)
(***************************************************************************)
EXTENDS Integers, Sequences, FiniteSets, TLC

VARIABLES
    initiatives,        \* data/raw/initiatives_latest.parquet: initiative rows
    financial,          \* data/raw/financial_metrics_latest.parquet: samples
    operational,        \* data/raw/operational_metrics_latest.parquet: samples
    now,                \* the wall clock read by datetime.now()
    pc,                 \* position of the run in run_full_transformation
    health_df,          \* the InitiativeHealth table returned by the scorer
    portfolio_metrics,  \* the dict returned by calculate_portfolio_metrics
    executive_summary,  \* the table returned by create_executive_summary
    present,            \* the raw dataset files that exist in data/raw
    analytics,          \* the files of data/analytics: name -> writer and content
    run,                \* the number of the current run
    written,            \* the number of files the current run has written
    result              \* what the run returned, or the exception it raised

vars == <<initiatives, financial, operational, now, pc, health_df,
          portfolio_metrics, executive_summary, present, analytics, run, written,
          result>>

-----------------------------------------------------------------------------
(* Bounds of the model *)

MaxInitiatives == 2
MaxSamples == 2
TicksPerDay == 2
MaxTotal == 5
MaxRuns == 2

-----------------------------------------------------------------------------
(* Floats: reduced rationals, nan, +inf, -inf *)

Abs(x) == IF x < 0 THEN -x ELSE x

RECURSIVE GCD(_, _)
GCD(a, b) == IF b = 0 THEN a ELSE GCD(b, a % b)

Fin(n, d) ==
    LET s == IF d < 0 THEN -1 ELSE 1
        g == GCD(Abs(n), Abs(d))
    IN  [k |-> "fin", n |-> (s * n) \div g, d |-> (s * d) \div g]

Num(n) == [k |-> "fin", n |-> n, d |-> 1]
NaN == [k |-> "nan", n |-> 0, d |-> 1]
PosInf == [k |-> "inf", n |-> 1, d |-> 1]
NegInf == [k |-> "inf", n |-> -1, d |-> 1]

IsNaN(x) == x.k = "nan"
IsFin(x) == x.k = "fin"

Lt(x, y) ==
    /\ ~IsNaN(x)
    /\ ~IsNaN(y)
    /\ IF IsFin(x) /\ IsFin(y) THEN x.n * y.d < y.n * x.d
       ELSE IF ~IsFin(x) /\ ~IsFin(y) THEN x.n < y.n
       ELSE IF ~IsFin(x) THEN x.n < 0
       ELSE y.n > 0

Le(x, y) ==
    /\ ~IsNaN(x)
    /\ ~IsNaN(y)
    /\ IF IsFin(x) /\ IsFin(y) THEN x.n * y.d <= y.n * x.d
       ELSE IF ~IsFin(x) /\ ~IsFin(y) THEN x.n <= y.n
       ELSE IF ~IsFin(x) THEN x.n < 0
       ELSE y.n > 0

Gt(x, y) == Lt(y, x)
Ge(x, y) == Le(y, x)

Sgn(x) == IF x.n > 0 THEN 1 ELSE IF x.n < 0 THEN -1 ELSE 0

Add(x, y) ==
    IF IsNaN(x) \/ IsNaN(y) THEN NaN
    ELSE IF IsFin(x) /\ IsFin(y) THEN Fin(x.n * y.d + y.n * x.d, x.d * y.d)
    ELSE IF ~IsFin(x) /\ ~IsFin(y) THEN (IF x.n = y.n THEN x ELSE NaN)
    ELSE IF ~IsFin(x) THEN x
    ELSE y

Mul(x, y) ==
    IF IsNaN(x) \/ IsNaN(y) THEN NaN
    ELSE IF IsFin(x) /\ IsFin(y) THEN Fin(x.n * y.n, x.d * y.d)
    ELSE IF Sgn(x) * Sgn(y) = 0 THEN NaN
    ELSE IF Sgn(x) * Sgn(y) > 0 THEN PosInf
    ELSE NegInf

Div(x, y) ==
    IF IsNaN(x) \/ IsNaN(y) THEN NaN
    ELSE IF IsFin(x) /\ IsFin(y) THEN
        IF y.n = 0 THEN (IF x.n = 0 THEN NaN ELSE IF x.n > 0 THEN PosInf ELSE NegInf)
        ELSE Fin(x.n * y.d, x.d * y.n)
    ELSE IF ~IsFin(x) /\ ~IsFin(y) THEN NaN
    ELSE IF ~IsFin(y) THEN Num(0)
    ELSE IF Sgn(x) * (IF y.n < 0 THEN -1 ELSE 1) > 0 THEN PosInf
    ELSE NegInf

\* Python's builtin max(a, b) and min(a, b): the first argument wins a tie
\* or a comparison with nan
PyMax(a, b) == IF Gt(b, a) THEN b ELSE a
PyMin(a, b) == IF Lt(b, a) THEN b ELSE a

FillNa(x, v) == IF IsNaN(x) THEN v ELSE x

\* Timedelta.days: whole days, rounded toward minus infinity
DaysOf(ticks) == ticks \div TicksPerDay

\* timedelta(days=x) for a float x, in ticks
TimedeltaDays(x) == (x.n * TicksPerDay) \div x.d

Days(n) == n * TicksPerDay

Range(s) == {s[i] : i \in DOMAIN s}

-----------------------------------------------------------------------------
(* Tables *)

RECURSIVE SumCol(_, _)
SumCol(df, col) ==
    IF Len(df) = 0 THEN 0 ELSE df[1][col] + SumCol(Tail(df), col)

MeanCol(df, col) == Div(Num(SumCol(df, col)), Num(Len(df)))

RowsOf(df, id) == SelectSeq(df, LAMBDA r : r.initiative_id = id)

\* the group keys of df.groupby('initiative_id'), in sorted order
RECURSIVE SortedKeys(_)
SortedKeys(S) ==
    IF S = {} THEN <<>>
    ELSE LET m == CHOOSE x \in S : \A y \in S : x <= y
         IN  <<m>> \o SortedKeys(S \ {m})

GroupKeys(df) == SortedKeys({df[i].initiative_id : i \in DOMAIN df})

\* roi_percentage aggregated by sum in place of mean
FinancialAgg_SumRoi(df) ==
    LET keys == GroupKeys(df)
    IN  [i \in DOMAIN keys |->
            [initiative_id  |-> keys[i],
             revenue_impact |-> Num(SumCol(RowsOf(df, keys[i]), "revenue_impact")),
             cost_reduction |-> Num(SumCol(RowsOf(df, keys[i]), "cost_reduction")),
             roi_percentage |-> Num(SumCol(RowsOf(df, keys[i]), "roi_percentage"))]]

\* financial_df.groupby('initiative_id').agg({...}).reset_index()
FinancialAgg(df) ==
    LET keys == GroupKeys(df)
    IN  [i \in DOMAIN keys |->
            [initiative_id  |-> keys[i],
             revenue_impact |-> Num(SumCol(RowsOf(df, keys[i]), "revenue_impact")),
             cost_reduction |-> Num(SumCol(RowsOf(df, keys[i]), "cost_reduction")),
             roi_percentage |-> MeanCol(RowsOf(df, keys[i]), "roi_percentage")]]

\* operational_df.groupby('initiative_id').agg({...}).reset_index()
OperationalAgg(df) ==
    LET keys == GroupKeys(df)
    IN  [i \in DOMAIN keys |->
            [initiative_id |-> keys[i],
             efficiency_gain_percentage |->
                 MeanCol(RowsOf(df, keys[i]), "efficiency_gain_percentage"),
             quality_score |-> MeanCol(RowsOf(df, keys[i]), "quality_score"),
             employee_satisfaction |->
                 MeanCol(RowsOf(df, keys[i]), "employee_satisfaction")]]

\* the columns a right table brings to a merge, filled with nan
NaNRow(cols) == [c \in cols |-> NaN]

\* a row of the left table extended with the value columns of a right row
Joined(l, r, cols) ==
    [c \in DOMAIN l \cup cols |-> IF c \in cols THEN r[c] ELSE l[c]]

\* an inner join in place of the left join
RECURSIVE MergeLeft_Inner(_, _, _)
MergeLeft_Inner(left, right, cols) ==
    IF Len(left) = 0 THEN <<>>
    ELSE LET l == left[1]
             m == RowsOf(right, l.initiative_id)
         IN  [j \in DOMAIN m |-> Joined(l, m[j], cols)]
             \o MergeLeft_Inner(Tail(left), right, cols)

\* left.merge(right, on='initiative_id', how='left'): every left row, in
\* order, once per matching right row, or once with nan when none matches
RECURSIVE MergeLeft(_, _, _)
MergeLeft(left, right, cols) ==
    IF Len(left) = 0 THEN <<>>
    ELSE LET l == left[1]
             m == RowsOf(right, l.initiative_id)
             out == IF Len(m) = 0 THEN <<Joined(l, NaNRow(cols), cols)>>
                    ELSE [j \in DOMAIN m |-> Joined(l, m[j], cols)]
         IN  out \o MergeLeft(Tail(left), right, cols)

FinancialCols == {"revenue_impact", "cost_reduction", "roi_percentage"}
OperationalCols == {"efficiency_gain_percentage", "quality_score", "employee_satisfaction"}

\* a row with the column col set to v, as df[col] = ... sets it for the row
Put(row, col, v) ==
    [c \in DOMAIN row \cup {col} |-> IF c = col THEN v ELSE row[c]]

\* row.get(col, default) of a pandas Series
RowGet(row, col, default) == IF col \in DOMAIN row THEN row[col] ELSE default

-----------------------------------------------------------------------------
(* Scoring functions of calculate_initiative_health_scores *)

\* the upper 20 band closed at 1.1 turned open
BudgetScore_OpenBand(x) ==
    IF Le(Fin(8, 10), x) /\ Le(x, Num(1)) THEN 25
    ELSE IF (Le(Fin(6, 10), x) /\ Lt(x, Fin(8, 10)))
            \/ (Lt(Num(1), x) /\ Lt(x, Fin(11, 10))) THEN 20
    ELSE IF (Le(Fin(4, 10), x) /\ Lt(x, Fin(6, 10)))
            \/ (Le(Fin(11, 10), x) /\ Le(x, Fin(12, 10))) THEN 10
    ELSE 0

BudgetScore(x) ==
    IF Le(Fin(8, 10), x) /\ Le(x, Num(1)) THEN 25
    ELSE IF (Le(Fin(6, 10), x) /\ Lt(x, Fin(8, 10)))
            \/ (Lt(Num(1), x) /\ Le(x, Fin(11, 10))) THEN 20
    ELSE IF (Le(Fin(4, 10), x) /\ Lt(x, Fin(6, 10)))
            \/ (Lt(Fin(11, 10), x) /\ Le(x, Fin(12, 10))) THEN 10
    ELSE 0

\* the 15 band closed at 1.0 turned open
TimeScore_OpenBand(row) ==
    IF row.status = "Completed" THEN 25
    ELSE IF Le(row.time_progress, Fin(9, 10)) THEN 20
    ELSE IF Lt(row.time_progress, Num(1)) THEN 15
    ELSE IF Le(row.time_progress, Fin(12, 10)) THEN 5
    ELSE 0

TimeScore(row) ==
    IF row.status = "Completed" THEN 25
    ELSE IF Le(row.time_progress, Fin(9, 10)) THEN 20
    ELSE IF Le(row.time_progress, Num(1)) THEN 15
    ELSE IF Le(row.time_progress, Fin(12, 10)) THEN 5
    ELSE 0

FinancialScore(x) ==
    IF Ge(x, Num(20)) THEN 30
    ELSE IF Ge(x, Num(15)) THEN 25
    ELSE IF Ge(x, Num(10)) THEN 20
    ELSE IF Ge(x, Num(5)) THEN 15
    ELSE IF Ge(x, Num(0)) THEN 10
    ELSE 0

\* the composite without its clamp
OperationalScore_Unclamped(row) ==
    Add(Add(Mul(FillNa(row.efficiency_gain_percentage, Num(0)), Fin(4, 10)),
            Mul(FillNa(row.quality_score, Num(80)), Fin(2, 10))),
        Mul(FillNa(row.employee_satisfaction, Num(7)), Num(2)))

\* the weights of efficiency and quality exchanged
OperationalScore_SwappedWeights(row) ==
    PyMin(Num(20), PyMax(Num(0),
        Add(Add(Mul(FillNa(row.efficiency_gain_percentage, Num(0)), Fin(2, 10)),
                Mul(FillNa(row.quality_score, Num(80)), Fin(4, 10))),
            Mul(FillNa(row.employee_satisfaction, Num(7)), Num(2)))))

OperationalScore(row) ==
    PyMin(Num(20), PyMax(Num(0),
        Add(Add(Mul(FillNa(row.efficiency_gain_percentage, Num(0)), Fin(4, 10)),
                Mul(FillNa(row.quality_score, Num(80)), Fin(2, 10))),
            Mul(FillNa(row.employee_satisfaction, Num(7)), Num(2)))))

HealthScore(row) ==
    Add(Add(Add(Num(row.budget_score), Num(row.time_score)),
            Num(row.financial_score)),
        row.operational_score)

\* Excellent only above 80
HealthStatus_StrictExcellent(x) ==
    IF Gt(x, Num(80)) THEN "Excellent"
    ELSE IF Ge(x, Num(65)) THEN "Good"
    ELSE IF Ge(x, Num(50)) THEN "Warning"
    ELSE "Critical"

HealthStatus(x) ==
    IF Ge(x, Num(80)) THEN "Excellent"
    ELSE IF Ge(x, Num(65)) THEN "Good"
    ELSE IF Ge(x, Num(50)) THEN "Warning"
    ELSE "Critical"

\* the extrapolation applied to Completed initiatives too
PredictCompletionDate_NoShortcut(row) ==
    IF Gt(row.time_progress, Num(0)) THEN
        LET estimated_total_days ==
                Div(Num(row.days_since_start), PyMax(row.time_progress, Fin(1, 10)))
        IN  row.start_date + TimedeltaDays(estimated_total_days)
    ELSE row.target_end_date

\* the extrapolation without the 0.1 floor
PredictCompletionDate_NoFloor(row) ==
    IF row.status = "Completed" THEN row.target_end_date
    ELSE IF Gt(row.time_progress, Num(0)) THEN
        row.start_date
            + TimedeltaDays(Div(Num(row.days_since_start), row.time_progress))
    ELSE row.target_end_date

\* the extrapolation with min in place of max
PredictCompletionDate_MinFloor(row) ==
    IF row.status = "Completed" THEN row.target_end_date
    ELSE IF Gt(row.time_progress, Num(0)) THEN
        row.start_date
            + TimedeltaDays(Div(Num(row.days_since_start),
                                PyMin(row.time_progress, Fin(1, 10))))
    ELSE row.target_end_date

\* _predict_completion_date
PredictCompletionDate(row) ==
    IF row.status = "Completed" THEN row.target_end_date
    ELSE IF Gt(row.time_progress, Num(0)) THEN
        LET estimated_total_days ==
                Div(Num(row.days_since_start), PyMax(row.time_progress, Fin(1, 10)))
        IN  row.start_date + TimedeltaDays(estimated_total_days)
    ELSE row.target_end_date

\* Budget Overrun from 1.1 on
IdentifyRiskFactors_OverrunAt(row) ==
    (IF Ge(row.budget_utilization, Fin(11, 10)) THEN <<"Budget Overrun">> ELSE <<>>)
    \o (IF Gt(row.time_progress, Num(1)) /\ row.status # "Completed"
        THEN <<"Schedule Delay">> ELSE <<>>)
    \o (IF Lt(RowGet(row, "roi_percentage", Num(0)), Num(5))
        THEN <<"Low ROI">> ELSE <<>>)
    \o (IF Lt(RowGet(row, "employee_satisfaction", Num(8)), Num(6))
        THEN <<"Team Satisfaction">> ELSE <<>>)

\* _identify_risk_factors
IdentifyRiskFactors(row) ==
    (IF Gt(row.budget_utilization, Fin(11, 10)) THEN <<"Budget Overrun">> ELSE <<>>)
    \o (IF Gt(row.time_progress, Num(1)) /\ row.status # "Completed"
        THEN <<"Schedule Delay">> ELSE <<>>)
    \o (IF Lt(RowGet(row, "roi_percentage", Num(0)), Num(5))
        THEN <<"Low ROI">> ELSE <<>>)
    \o (IF Lt(RowGet(row, "employee_satisfaction", Num(8)), Num(6))
        THEN <<"Team Satisfaction">> ELSE <<>>)

\* 1. budget_utilization and budget_score
BudgetColumns(r) ==
    LET u == Div(Num(r.budget_spent), Num(r.budget_allocated))
    IN  Put(Put(r, "budget_utilization", u), "budget_score", BudgetScore(u))

\* 2. days_since_start, total_duration and time_progress
ProgressColumns(r, today) ==
    LET dss == DaysOf(today - r.start_date)
        td == DaysOf(r.target_end_date - r.start_date)
    IN  Put(Put(Put(r, "days_since_start", dss), "total_duration", td),
            "time_progress", Div(Num(dss), Num(td)))

WithTimeScore(r) == Put(r, "time_score", TimeScore(r))

InitiativeColumns(df, today) ==
    [i \in DOMAIN df |-> WithTimeScore(ProgressColumns(BudgetColumns(df[i]), today))]

\* 3. financial_score of the merged roi_percentage
WithFinancialScore(df) ==
    [i \in DOMAIN df |->
        Put(df[i], "financial_score",
            FinancialScore(FillNa(df[i].roi_percentage, Num(0))))]

\* 4., 5. operational_score, health_score, health_status, then the
\* prediction and the risk factors
WithOperationalScore(r) == Put(r, "operational_score", OperationalScore(r))
WithHealthScore(r) == Put(r, "health_score", HealthScore(r))
WithHealthStatus(r) == Put(r, "health_status", HealthStatus(r.health_score))
WithPrediction(r) == Put(r, "predicted_completion_date", PredictCompletionDate(r))
WithRiskFactors(r) == Put(r, "risk_factors", IdentifyRiskFactors(r))

HealthColumns(df) ==
    [i \in DOMAIN df |->
        WithRiskFactors(WithPrediction(WithHealthStatus(WithHealthScore(
            WithOperationalScore(df[i])))))]

\* calculate_initiative_health_scores, with today the value of datetime.now()
CalculateInitiativeHealthScoresDf(initiatives_df, financial_df, operational_df, today) ==
    HealthColumns(
        MergeLeft(
            WithFinancialScore(
                MergeLeft(InitiativeColumns(initiatives_df, today),
                          FinancialAgg(financial_df), FinancialCols)),
            OperationalAgg(operational_df), OperationalCols))

-----------------------------------------------------------------------------
(* calculate_portfolio_metrics *)

RECURSIVE SumNums(_)
SumNums(s) == IF Len(s) = 0 THEN Num(0) ELSE Add(s[1], SumNums(Tail(s)))

\* Series.mean(): nan values are skipped, the mean of no value is nan
MeanSkipNa(s) ==
    IF Len(SelectSeq(s, LAMBDA x : ~IsNaN(x))) = 0 THEN NaN
    ELSE Div(SumNums(SelectSeq(s, LAMBDA x : ~IsNaN(x))),
             Num(Len(SelectSeq(s, LAMBDA x : ~IsNaN(x)))))

\* x rounded to the nearest multiple of 1/scale, a tie to the even one
RoundTo(x, scale) ==
    IF ~IsFin(x) THEN x
    ELSE LET f == (x.n * scale) \div x.d
             rem2 == 2 * (x.n * scale - f * x.d)
         IN  Fin(IF rem2 > x.d \/ (rem2 = x.d /\ f % 2 = 1) THEN f + 1 ELSE f, scale)

\* DataFrame.round(2)
Round2(x) == RoundTo(x, 100)

Column(df, col) == [i \in DOMAIN df |-> df[i][col]]

WithStatusIn(df, statuses) == SelectSeq(df, LAMBDA r : r.status \in statuses)

TotalBudgetAllocated(df) == Num(SumCol(df, "budget_allocated"))
TotalBudgetSpent(df) == Num(SumCol(df, "budget_spent"))

\* total_budget_spent / total_budget_allocated * 100
BudgetUtilizationRate(df) ==
    Mul(Div(TotalBudgetSpent(df), TotalBudgetAllocated(df)), Num(100))

\* the revenue impacts alone
TotalFinancialImpact_RevenueOnly(financial_df) ==
    Add(Num(SumCol(financial_df, "revenue_impact")), Num(0))

\* the sums run over every sample of the financial table
TotalFinancialImpact(financial_df) ==
    Add(Num(SumCol(financial_df, "revenue_impact")),
        Num(SumCol(financial_df, "cost_reduction")))

\* (total_financial_impact / total_budget_spent - 1) * 100
PortfolioRoi(df, financial_df) ==
    Mul(Add(Div(TotalFinancialImpact(financial_df), TotalBudgetSpent(df)), Num(-1)),
        Num(100))

\* health_df['health_status'].value_counts().get(status, 0)
CountHealthStatus(df, status) ==
    Len(SelectSeq(df, LAMBDA r : r.health_status = status))

HealthDistribution(df) ==
    [excellent |-> CountHealthStatus(df, "Excellent"),
     good      |-> CountHealthStatus(df, "Good"),
     warning   |-> CountHealthStatus(df, "Warning"),
     critical  |-> CountHealthStatus(df, "Critical")]

\* the bucket taken at health_score <= 50
AtRisk_Inclusive(df) == SelectSeq(df, LAMBDA r : Le(r.health_score, Num(50)))

\* health_df[health_df['health_score'] < 50]
AtRisk(df) == SelectSeq(df, LAMBDA r : Lt(r.health_score, Num(50)))

\* total_budget summed over the spent budgets
AtRiskInitiatives_Spent(df) ==
    [count        |-> Len(AtRisk(df)),
     total_budget |-> IF Len(AtRisk(df)) > 0
                      THEN Num(SumCol(AtRisk(df), "budget_spent")) ELSE Num(0),
     names        |-> IF Len(AtRisk(df)) > 0 THEN Column(AtRisk(df), "name") ELSE <<>>]

AtRiskInitiatives(df) ==
    [count        |-> Len(AtRisk(df)),
     total_budget |-> IF Len(AtRisk(df)) > 0
                      THEN Num(SumCol(AtRisk(df), "budget_allocated")) ELSE Num(0),
     names        |-> IF Len(AtRisk(df)) > 0 THEN Column(AtRisk(df), "name") ELSE <<>>]

WithType(df, t) == SelectSeq(df, LAMBDA r : r.type = t)
TypesOf(df) == {df[i].type : i \in DOMAIN df}

\* the allocated budgets aggregated by mean
PerformanceByType_MeanBudget(df) ==
    [health_score |->
        [t \in TypesOf(df) |->
            Round2(MeanSkipNa(Column(WithType(df, t), "health_score")))],
     budget_allocated |->
        [t \in TypesOf(df) |-> Round2(MeanCol(WithType(df, t), "budget_allocated"))],
     roi_percentage |->
        [t \in TypesOf(df) |->
            Round2(MeanSkipNa(Column(WithType(df, t), "roi_percentage")))]]

\* health_df.groupby('type').agg({...}).round(2).to_dict()
PerformanceByType(df) ==
    [health_score |->
        [t \in TypesOf(df) |->
            Round2(MeanSkipNa(Column(WithType(df, t), "health_score")))],
     budget_allocated |->
        [t \in TypesOf(df) |-> Round2(Num(SumCol(WithType(df, t), "budget_allocated")))],
     roi_percentage |->
        [t \in TypesOf(df) |->
            Round2(MeanSkipNa(Column(WithType(df, t), "roi_percentage")))]]

\* health_df[predicted_completion_date <= datetime.now() + timedelta(days=30)]
Upcoming(df, today) ==
    SelectSeq(df, LAMBDA r : r.predicted_completion_date <= today + Days(30))

UpcomingCompletions(df, today) ==
    [count |-> Len(Upcoming(df, today)), names |-> Column(Upcoming(df, today), "name")]

\* calculate_portfolio_metrics, with today the value of datetime.now()
CalculatePortfolioMetricsDict(df, financial_df, today) ==
    [total_initiatives       |-> Len(df),
     active_initiatives      |-> Len(WithStatusIn(df, {"In Progress", "At Risk"})),
     completed_initiatives   |-> Len(WithStatusIn(df, {"Completed"})),
     total_budget_allocated  |-> TotalBudgetAllocated(df),
     total_budget_spent      |-> TotalBudgetSpent(df),
     budget_utilization_rate |-> BudgetUtilizationRate(df),
     total_financial_impact  |-> TotalFinancialImpact(financial_df),
     portfolio_roi           |-> PortfolioRoi(df, financial_df),
     health_distribution     |-> HealthDistribution(df),
     at_risk_initiatives     |-> AtRiskInitiatives(df),
     performance_by_type     |-> PerformanceByType(df),
     upcoming_completions    |-> UpcomingCompletions(df, today)]

-----------------------------------------------------------------------------
(* create_executive_summary *)

\* f"{x:.1f}%": the value rounded to one decimal, or nan or inf, and the sign
Percent1(x) == [text |-> "percent", value |-> RoundTo(x, 10)]

\* f"{a}/{b}"
Ratio(a, b) == [text |-> "ratio", value |-> <<a, b>>]

\* the row that is Good from a ROI of 15 on
PortfolioRoiRow_Inclusive(m) ==
    [metric_name     |-> "Portfolio ROI",
     current_value   |-> Percent1(m.portfolio_roi),
     status          |-> IF Ge(m.portfolio_roi, Num(15)) THEN "Good" ELSE "Warning",
     description     |-> "Return on Investment across all transformation initiatives",
     action_required |-> IF Ge(m.portfolio_roi, Num(15)) THEN "None"
                         ELSE "Review underperforming initiatives"]

PortfolioRoiRow(m) ==
    [metric_name     |-> "Portfolio ROI",
     current_value   |-> Percent1(m.portfolio_roi),
     status          |-> IF Gt(m.portfolio_roi, Num(15)) THEN "Good" ELSE "Warning",
     description     |-> "Return on Investment across all transformation initiatives",
     action_required |-> IF Gt(m.portfolio_roi, Num(15)) THEN "None"
                         ELSE "Review underperforming initiatives"]

\* 80 <= budget_util <= 100
BudgetInBand(x) == Le(Num(80), x) /\ Le(x, Num(100))

BudgetUtilizationRow(m) ==
    [metric_name     |-> "Budget Utilization",
     current_value   |-> Percent1(m.budget_utilization_rate),
     status          |-> IF BudgetInBand(m.budget_utilization_rate)
                         THEN "Good" ELSE "Warning",
     description     |-> "Overall budget utilization across portfolio",
     action_required |-> IF BudgetInBand(m.budget_utilization_rate)
                         THEN "None" ELSE "Budget reallocation needed"]

\* at_risk_count > total_initiatives * 0.3
AtRiskRow(m) ==
    [metric_name     |-> "At-Risk Initiatives",
     current_value   |-> Ratio(m.at_risk_initiatives.count, m.total_initiatives),
     status          |-> IF Gt(Num(m.at_risk_initiatives.count),
                               Mul(Num(m.total_initiatives), Fin(3, 10)))
                         THEN "Critical" ELSE "Good",
     description     |-> "Number of initiatives requiring immediate attention",
     action_required |-> IF m.at_risk_initiatives.count > 0
                         THEN "Immediate intervention required" ELSE "None"]

\* (completed_initiatives / total_initiatives) * 100, of a total that is not 0
CompletionRate(m) ==
    Mul(Div(Num(m.completed_initiatives), Num(m.total_initiatives)), Num(100))

CompletionRateRow(m) ==
    [metric_name     |-> "Completion Rate",
     current_value   |-> Percent1(CompletionRate(m)),
     status          |-> IF Gt(CompletionRate(m), Num(60)) THEN "Good" ELSE "Warning",
     description     |-> "Percentage of initiatives successfully completed",
     action_required |-> IF Lt(CompletionRate(m), Num(60))
                         THEN "Accelerate delivery" ELSE "None"]

\* the division of two Python ints raises ZeroDivisionError on a divisor of 0
CompletionRateRaises(m) == m.total_initiatives = 0

\* create_executive_summary, when it returns
CreateExecutiveSummaryDf(m) ==
    <<PortfolioRoiRow(m), BudgetUtilizationRow(m), AtRiskRow(m), CompletionRateRow(m)>>

-----------------------------------------------------------------------------
(* Input datasets *)

STATUSES == {"Planning", "In Progress", "At Risk", "Completed", "On Hold"}
INITIATIVE_TYPES == <<"Digital", "Operational", "HR", "Financial">>

initiative_names ==
    <<"CRM Migration to Salesforce", "Supply Chain Automation",
      "Remote Work Infrastructure", "Cost Reduction Program",
      "Digital Customer Portal", "Lean Manufacturing Implementation",
      "Skills Training Program", "ERP System Upgrade", "Process Digitization",
      "Vendor Consolidation", "Quality Management System",
      "Data Analytics Platform">>

StartDate == Days(20)

\* the i-th initiative of the data source (i from 1); ids are numbered, 0 is
\* the id of no initiative
Initiative(i, status, end_offset, allocated, spent) ==
    [initiative_id    |-> i,
     name             |-> initiative_names[((i - 1) % Len(initiative_names)) + 1],
     type             |-> INITIATIVE_TYPES[((i - 1) % Len(INITIATIVE_TYPES)) + 1],
     start_date       |-> StartDate,
     target_end_date  |-> StartDate + end_offset,
     budget_allocated |-> allocated,
     budget_spent     |-> spent,
     status           |-> status]

FinancialMetric(id, roi) ==
    [initiative_id |-> id, revenue_impact |-> 100, cost_reduction |-> 50,
     roi_percentage |-> roi]

OperationalMetric(id, v) ==
    [initiative_id |-> id, efficiency_gain_percentage |-> v[1],
     quality_score |-> v[2], employee_satisfaction |-> v[3]]

SeqsUpTo(S, n) == UNION {[1..m -> S] : m \in 0..n}

SampleIds == 0..MaxInitiatives

\* planned durations: none, ten days, ten days and a fraction, thirty days
EndOffsets == {0, Days(10), Days(10) + 1, Days(30)}
\* the clock relative to the start date
NowOffsets == {-1, 0, Days(1), Days(5), Days(9), Days(9) + 1, Days(10), Days(11),
               Days(12), Days(12) + 1, Days(13)}
AllocatedInputs == {0, 100}
SpentInputs == {0, 39, 40, 59, 60, 79, 80, 100, 101, 110, 111, 120, 121, 130}
RoiInputs == {-1, 0, 4, 5, 9, 10, 14, 15, 19, 20}
\* <<efficiency gain, quality, employee satisfaction>>
OperationalInputs == {<<-100, 0, 0>>, <<0, 0, 0>>, <<0, 0, 5>>, <<0, 49, 5>>,
                      <<0, 50, 5>>, <<0, 40, 6>>, <<10, 90, 8>>}

\* one initiative over every status, duration, budget and clock, with no
\* samples, poor samples or good samples
SampleScenarios ==
    {<< <<>>, <<>> >>,
     << <<FinancialMetric(1, -5)>>, <<OperationalMetric(1, <<0, 0, 5>>)>> >>,
     << <<FinancialMetric(1, 22)>>, <<OperationalMetric(1, <<10, 90, 8>>)>> >>}

InitSingle ==
    /\ initiatives \in {<<Initiative(1, s, e, a, b)>> :
                          s \in STATUSES, e \in EndOffsets,
                          a \in AllocatedInputs, b \in SpentInputs}
    /\ \E sc \in SampleScenarios : financial = sc[1] /\ operational = sc[2]
    /\ now \in {StartDate + o : o \in NowOffsets}

\* one initiative, every financial sample table
InitFinancial ==
    /\ initiatives = <<Initiative(1, "In Progress", Days(10), 100, 85)>>
    /\ financial \in SeqsUpTo({FinancialMetric(id, r) : id \in {0, 1}, r \in RoiInputs},
                              MaxSamples)
    /\ operational = <<>>
    /\ now = StartDate + Days(5)

\* one initiative whose other three scores sum to 60, 45 or 30, every
\* operational sample table
InitOperational ==
    /\ initiatives \in {<<Initiative(1, v[1], Days(10), 100, v[2])>> :
                          v \in {<<"Completed", 85>>, <<"Completed", 50>>,
                                 <<"In Progress", 130>>}}
    /\ financial = <<>>
    /\ operational \in SeqsUpTo({OperationalMetric(id, v) :
                                    id \in {0, 1}, v \in OperationalInputs},
                                MaxSamples)
    /\ now = StartDate + Days(5)

\* up to MaxInitiatives initiatives, the first one completed or not, samples
\* spread over them and over the id of no initiative in every way
InitTables ==
    /\ \E n \in 1..MaxInitiatives :
         \E s1 \in {"In Progress", "Completed"} :
            initiatives = [i \in 1..n |->
                Initiative(i, IF i = 1 THEN s1 ELSE "In Progress", Days(10), 100, 85)]
    /\ financial \in SeqsUpTo({FinancialMetric(id, 22) : id \in SampleIds}, MaxSamples)
    /\ operational \in SeqsUpTo({OperationalMetric(id, <<10, 90, 5>>) : id \in SampleIds},
                                MaxSamples)
    /\ now = StartDate + Days(5)

\* the raw dataset files load_latest_data looks for
DatasetNames == {"initiatives", "financial_metrics", "operational_metrics"}

\* the artifacts of a run, in the order run_full_transformation writes them
ArtifactWrites ==
    <<[kind |-> "initiative_health", copy |-> "timestamped"],
      [kind |-> "initiative_health", copy |-> "latest"],
      [kind |-> "executive_summary", copy |-> "timestamped"],
      [kind |-> "executive_summary", copy |-> "latest"],
      [kind |-> "portfolio_metrics", copy |-> "latest"]>>

\* no dict yet
NoMetrics == [total_initiatives |-> -1]

\* data/analytics with no file
NoArtifacts == [latest |-> <<>>, timestamped |-> <<>>]

\* the state of a calculator before its first step, over given raw files
Fresh ==
    /\ health_df = <<>>
    /\ portfolio_metrics = NoMetrics
    /\ executive_summary = <<>>
    /\ analytics = NoArtifacts
    /\ run = 1
    /\ written = 0
    /\ result = "none"

Init ==
    /\ pc = "loaded"
    /\ present = DatasetNames
    /\ Fresh
    /\ (InitSingle \/ InitFinancial \/ InitOperational \/ InitTables)

\* <<status, planned duration, allocated, spent>> of the rows of a portfolio
PortfolioRowInputs ==
    {<<"In Progress", Days(10), 100, 85>>, <<"At Risk", Days(10), 100, 130>>,
     <<"Completed", Days(10), 100, 85>>, <<"Completed", Days(40), 100, 85>>,
     <<"Planning", Days(40), 0, 0>>, <<"Completed", Days(10), 0, 0>>}

\* type=random.choice(INITIATIVE_TYPES): an initiative of the given type
OfType(initiative, type) == [initiative EXCEPT !.type = type]

\* portfolios of up to MaxInitiatives initiatives, of one type or of
\* different ones, early, late and long after the planned end, with
\* financial samples spread over the first two
InitPortfolio ==
    /\ pc = "loaded"
    /\ present = DatasetNames
    /\ Fresh
    /\ \E n \in 1..MaxInitiatives :
         \E v \in [1..n -> PortfolioRowInputs] :
            \E one_type \in BOOLEAN :
               initiatives = [i \in 1..n |->
                   OfType(Initiative(i, v[i][1], v[i][2], v[i][3], v[i][4]),
                          IF one_type THEN INITIATIVE_TYPES[1]
                          ELSE INITIATIVE_TYPES[((i - 1) % Len(INITIATIVE_TYPES)) + 1])]
    /\ financial \in SeqsUpTo({FinancialMetric(id, 22) : id \in {1, 2}}, MaxSamples)
    /\ operational = <<>>
    /\ now \in {StartDate + Days(5), StartDate + Days(13), StartDate + Days(45)}

\* a portfolio_metrics dict with the keys create_executive_summary reads
MetricsDict(roi, rate, at_risk, total, completed) ==
    [total_initiatives       |-> total,
     completed_initiatives   |-> completed,
     budget_utilization_rate |-> rate,
     portfolio_roi           |-> roi,
     at_risk_initiatives     |-> [count |-> at_risk]]

RoiRateInputs == {Num(-100), Num(14), Num(15), Fin(151, 10), Num(79), Num(80),
                  Num(100), Fin(1001, 10), NaN, PosInf}

InitSummary ==
    /\ pc = "aggregated"
    /\ present = DatasetNames
    /\ initiatives = <<>> /\ financial = <<>> /\ operational = <<>>
    /\ now = StartDate
    /\ health_df = <<>>
    /\ executive_summary = <<>>
    /\ analytics = NoArtifacts
    /\ run = 1
    /\ written = 0
    /\ result = "none"
    /\ \E total \in 0..MaxTotal :
         portfolio_metrics \in
            {MetricsDict(roi, rate, at_risk, total, completed) :
                roi \in RoiRateInputs, rate \in RoiRateInputs,
                at_risk \in 0..total, completed \in 0..total}

\* an operational sample of a file written without employee_satisfaction
OperationalMetricWithout(id, v) ==
    [initiative_id |-> id, efficiency_gain_percentage |-> v[1], quality_score |-> v[2]]

\* <<financial, operational>> sample tables of a run: none, some, and some
\* in an operational file that lacks the optional employee_satisfaction column
RunSamples ==
    {<< <<>>, <<>> >>,
     << <<FinancialMetric(1, 22)>>, <<OperationalMetric(1, <<10, 90, 8>>)>> >>,
     << <<FinancialMetric(1, 22)>>, <<OperationalMetricWithout(1, <<10, 90>>)>> >>}

\* the first run of a calculator over raw files that stay as they are, some
\* of them possibly absent
InitRun ==
    /\ pc = "start"
    /\ present \in SUBSET DatasetNames
    /\ Fresh
    /\ \E n \in 1..MaxInitiatives :
         initiatives = [i \in 1..n |->
             Initiative(i, IF i = 1 THEN "At Risk" ELSE "Completed", Days(10), 100,
                        IF i = 1 THEN 130 ELSE 85)]
    /\ \E sc \in RunSamples : financial = sc[1] /\ operational = sc[2]
    /\ now = StartDate + Days(13)

-----------------------------------------------------------------------------
(* Operations *)

datasets == <<initiatives, financial, operational>>
locals == <<health_df, portfolio_metrics, executive_summary>>

\* a later run of the same calculator: the clock has moved on or not, raw
\* files may have come or gone
StartRun ==
    /\ pc \in {"done", "aborted", "failed"}
    /\ run < MaxRuns
    /\ run' = run + 1
    /\ pc' = "start"
    /\ present' \in SUBSET DatasetNames
    /\ now' \in {now, now + 1}
    /\ health_df' = <<>>
    /\ portfolio_metrics' = NoMetrics
    /\ executive_summary' = <<>>
    /\ written' = 0
    /\ result' = "none"
    /\ UNCHANGED <<datasets, analytics>>

\* a run that goes on with at least one dataset
LoadLatestData_AnyDataset ==
    /\ pc = "start"
    /\ IF Cardinality(present) < 1
       THEN pc' = "aborted" /\ result' = "empty"
       ELSE pc' = "loaded" /\ UNCHANGED result
    /\ UNCHANGED <<datasets, now, locals, present, analytics, run, written>>

\* run_full_transformation, step 1: load_latest_data and the test on the
\* number of datasets
LoadLatestData ==
    /\ pc = "start"
    /\ IF Cardinality(present) < 3
       THEN pc' = "aborted" /\ result' = "empty"
       ELSE pc' = "loaded" /\ UNCHANGED result
    /\ UNCHANGED <<datasets, now, locals, present, analytics, run, written>>

\* groupby(...).agg({col: ...}) raises KeyError for a column the table lacks
HasColumns(df, cols) == \A i \in DOMAIN df : cols \subseteq DOMAIN df[i]

AggRaises(financial_df, operational_df) ==
    \/ ~HasColumns(financial_df, FinancialCols \cup {"initiative_id"})
    \/ ~HasColumns(operational_df, OperationalCols \cup {"initiative_id"})

\* a scorer that derives the first columns onto the table it was given
CalculateInitiativeHealthScores_InPlace ==
    /\ pc = "loaded"
    /\ IF AggRaises(financial, operational)
       THEN /\ pc' = "failed"
            /\ result' = "KeyError"
            /\ UNCHANGED <<health_df, initiatives>>
       ELSE /\ health_df' = CalculateInitiativeHealthScoresDf(initiatives, financial,
                                                              operational, now)
            /\ initiatives' = InitiativeColumns(initiatives, now)
            /\ pc' = "scored"
            /\ UNCHANGED result
    /\ UNCHANGED <<financial, operational, now, portfolio_metrics, executive_summary,
                   present, analytics, run, written>>

\* a scorer that stores its table as soon as it has it
CalculateInitiativeHealthScores_WritesFirst ==
    /\ pc = "loaded"
    /\ IF AggRaises(financial, operational)
       THEN /\ pc' = "failed"
            /\ result' = "KeyError"
            /\ UNCHANGED <<health_df, analytics>>
       ELSE /\ health_df' = CalculateInitiativeHealthScoresDf(initiatives, financial,
                                                              operational, now)
            /\ analytics' =
                   [analytics EXCEPT !.latest =
                       Put(@, "initiative_health",
                           [writer |-> run,
                            data |-> CalculateInitiativeHealthScoresDf(
                                         initiatives, financial, operational, now)])]
            /\ pc' = "scored"
            /\ UNCHANGED result
    /\ UNCHANGED <<datasets, now, portfolio_metrics, executive_summary, present,
                   run, written>>

\* a scorer that appends to the table the previous run left
CalculateInitiativeHealthScores_Incremental ==
    /\ pc = "loaded"
    /\ IF AggRaises(financial, operational)
       THEN /\ pc' = "failed"
            /\ result' = "KeyError"
            /\ UNCHANGED health_df
       ELSE /\ health_df' =
                   (IF "initiative_health" \in DOMAIN analytics.latest
                    THEN analytics.latest["initiative_health"].data ELSE <<>>)
                   \o CalculateInitiativeHealthScoresDf(initiatives, financial,
                                                        operational, now)
            /\ pc' = "scored"
            /\ UNCHANGED result
    /\ UNCHANGED <<datasets, now, portfolio_metrics, executive_summary, present,
                   analytics, run, written>>

\* run_full_transformation, step 2
CalculateInitiativeHealthScores ==
    /\ pc = "loaded"
    /\ IF AggRaises(financial, operational)
       THEN /\ pc' = "failed"
            /\ result' = "KeyError"
            /\ UNCHANGED health_df
       ELSE /\ health_df' = CalculateInitiativeHealthScoresDf(initiatives, financial,
                                                              operational, now)
            /\ pc' = "scored"
            /\ UNCHANGED result
    /\ UNCHANGED <<datasets, now, portfolio_metrics, executive_summary, present,
                   analytics, run, written>>

\* run_full_transformation, step 3
CalculatePortfolioMetrics ==
    /\ pc = "scored"
    /\ portfolio_metrics' = CalculatePortfolioMetricsDict(health_df, financial, now)
    /\ pc' = "aggregated"
    /\ UNCHANGED <<datasets, now, health_df, executive_summary, present, analytics,
                   run, written, result>>

\* run_full_transformation, step 4
CreateExecutiveSummary ==
    /\ pc = "aggregated"
    /\ IF CompletionRateRaises(portfolio_metrics)
       THEN /\ pc' = "failed"
            /\ result' = "ZeroDivisionError"
            /\ UNCHANGED executive_summary
       ELSE /\ executive_summary' = CreateExecutiveSummaryDf(portfolio_metrics)
            /\ pc' = "summarized"
            /\ UNCHANGED result
    /\ UNCHANGED <<datasets, now, health_df, portfolio_metrics, present, analytics,
                   run, written>>

\* what the k-th write stores
ArtifactData(kind) ==
    IF kind = "initiative_health" THEN health_df
    ELSE IF kind = "executive_summary" THEN executive_summary
    ELSE portfolio_metrics

\* a file of data/analytics with its content and the run that wrote it
StoredFile(kind) == [writer |-> run, data |-> ArtifactData(kind)]

\* the directory after a write: the timestamped name is made of the clock
WriteFile(dir, w) ==
    IF w.copy = "latest"
    THEN [dir EXCEPT !.latest = Put(dir.latest, w.kind, StoredFile(w.kind))]
    ELSE [dir EXCEPT !.timestamped =
              Put(dir.timestamped, <<w.kind, now>>, StoredFile(w.kind))]

\* run_full_transformation, step 5: the next write succeeds; after the last
\* one the results are returned
SaveArtifact ==
    /\ pc = "summarized"
    /\ written < Len(ArtifactWrites)
    /\ analytics' = WriteFile(analytics, ArtifactWrites[written + 1])
    /\ written' = written + 1
    /\ IF written + 1 = Len(ArtifactWrites)
       THEN pc' = "done" /\ result' = "results"
       ELSE UNCHANGED <<pc, result>>
    /\ UNCHANGED <<datasets, now, locals, present, run>>

\* run_full_transformation, step 5: the next write raises
SaveArtifactFails ==
    /\ pc = "summarized"
    /\ written < Len(ArtifactWrites)
    /\ pc' = "failed"
    /\ result' = "OSError"
    /\ UNCHANGED <<datasets, now, locals, present, analytics, run, written>>

\* the scorer alone, over every input family
Next == CalculateInitiativeHealthScores

Spec == Init /\ [][Next]_vars

\* the scorer and the portfolio aggregation
NextPortfolio == CalculateInitiativeHealthScores \/ CalculatePortfolioMetrics

SpecPortfolio == InitPortfolio /\ [][NextPortfolio]_vars

\* the executive summary alone, over portfolio_metrics dicts
NextSummary == CreateExecutiveSummary

SpecSummary == InitSummary /\ [][NextSummary]_vars

\* run_full_transformation, run after run
NextRun ==
    \/ StartRun
    \/ LoadLatestData
    \/ CalculateInitiativeHealthScores
    \/ CalculatePortfolioMetrics
    \/ CreateExecutiveSummary
    \/ SaveArtifact
    \/ SaveArtifactFails

SpecRun == InitRun /\ [][NextRun]_vars

-----------------------------------------------------------------------------
(* Properties of the health scorer *)

Rows == {health_df[i] : i \in DOMAIN health_df}

\* the samples of an initiative in an input table
FinancialOf(id) == RowsOf(financial, id)
OperationalOf(id) == RowsOf(operational, id)

\* C1: every row's health_score is exactly budget_score + time_score +
\* financial_score + operational_score and lies in [0, 100], with the four
\* sub-scores in [0, 25], [0, 25], [0, 30] and [0, 20], whatever the inputs
\* (undefined or infinite utilization or progress, no samples).
C1_HealthScoreIsBoundedSum ==
    \A r \in Rows :
        LET hs == r.health_score
            op == r.operational_score
        IN  /\ r.budget_score \in 0..25
            /\ r.time_score \in 0..25
            /\ r.financial_score \in 0..30
            /\ IsFin(op) /\ 0 <= op.n /\ op.n <= 20 * op.d
            /\ IsFin(hs) /\ 0 <= hs.n /\ hs.n <= 100 * hs.d
            /\ hs.n * op.d
                 = ((r.budget_score + r.time_score + r.financial_score) * op.d + op.n) * hs.d

C1_Witness ==
    /\ pc = "scored"
    /\ \E r \in Rows :
        /\ IsNaN(r.budget_utilization)
        /\ r.time_progress = PosInf
        /\ IsNaN(r.roi_percentage)
        /\ IsNaN(r.quality_score)
        /\ r.health_score = Num(30)

\* C2: health_status depends on health_score alone: Excellent from 80, Good
\* from 65, Warning from 50, Critical below 50.
C2_HealthStatusBands ==
    \A r \in Rows :
        LET hs == r.health_score
        IN  r.health_status =
                IF hs.n >= 80 * hs.d THEN "Excellent"
                ELSE IF hs.n >= 65 * hs.d THEN "Good"
                ELSE IF hs.n >= 50 * hs.d THEN "Warning"
                ELSE "Critical"

C2_Witness ==
    /\ pc = "scored"
    /\ \E r \in Rows : r.health_score = Fin(799, 10) /\ r.health_status = "Good"

\* C3: budget_score is 25 for a utilization in [0.8, 1.0], 20 in [0.6, 0.8)
\* or (1.0, 1.1], 10 in [0.4, 0.6) or (1.1, 1.2], and 0 for every other
\* utilization, an undefined or infinite one (nothing allocated) included.
C3_BudgetScoreBands ==
    \A r \in Rows :
        LET a == r.budget_allocated
            s == r.budget_spent
        IN  r.budget_score =
                IF a <= 0 THEN 0
                ELSE IF 8 * a <= 10 * s /\ s <= a THEN 25
                ELSE IF (6 * a <= 10 * s /\ 10 * s < 8 * a)
                        \/ (a < s /\ 10 * s <= 11 * a) THEN 20
                ELSE IF (4 * a <= 10 * s /\ 10 * s < 6 * a)
                        \/ (11 * a < 10 * s /\ 10 * s <= 12 * a) THEN 10
                ELSE 0

C3_Witness ==
    /\ pc = "scored"
    /\ \E r \in Rows :
        /\ r.budget_allocated = 0
        /\ r.budget_spent > 0
        /\ r.budget_utilization = PosInf
        /\ r.budget_score = 0

\* days_since_start / total_duration <= p / q as the floats compare
ProgressLe(dss, td, p, q) ==
    IF td > 0 THEN q * dss <= p * td
    ELSE IF td < 0 THEN q * dss >= p * td
    ELSE dss < 0

\* C4: time_score is 25 for a Completed initiative; otherwise 20 when
\* time_progress <= 0.9 (not yet started included), 15 when it is in
\* (0.9, 1.0], 5 when in (1.0, 1.2], and 0 otherwise, with time_progress =
\* days_since_start / total planned duration.
C4_TimeScoreBands ==
    \A r \in Rows :
        LET dss == (now - r.start_date) \div TicksPerDay
            td == (r.target_end_date - r.start_date) \div TicksPerDay
        IN  r.time_score =
                IF r.status = "Completed" THEN 25
                ELSE IF ProgressLe(dss, td, 9, 10) THEN 20
                ELSE IF ProgressLe(dss, td, 1, 1) THEN 15
                ELSE IF ProgressLe(dss, td, 12, 10) THEN 5
                ELSE 0

C4_Witness ==
    /\ pc = "scored"
    /\ \E r \in Rows :
        /\ r.status # "Completed"
        /\ now < r.start_date
        /\ r.total_duration > 0
        /\ r.time_score = 20

\* C5: financial_score follows the mean roi_percentage of the initiative's
\* financial samples: 30 from 20, 25 from 15, 20 from 10, 15 from 5, 10 from
\* 0, 0 below 0; an initiative with no financial sample scores 10.
C5_FinancialScoreBands ==
    \A r \in Rows :
        LET fs == FinancialOf(r.initiative_id)
            n == Len(fs)
            total == SumCol(fs, "roi_percentage")
        IN  r.financial_score =
                IF n = 0 THEN 10
                ELSE IF total >= 20 * n THEN 30
                ELSE IF total >= 15 * n THEN 25
                ELSE IF total >= 10 * n THEN 20
                ELSE IF total >= 5 * n THEN 15
                ELSE IF total >= 0 THEN 10
                ELSE 0

C5_Witness ==
    /\ pc = "scored"
    /\ \E r \in Rows :
        LET fs == FinancialOf(r.initiative_id)
        IN  /\ Len(fs) = 2
            /\ fs[1].roi_percentage = 20
            /\ fs[2].roi_percentage = 19
            /\ r.financial_score = 25

\* C6: operational_score = min(20, max(0, 0.4*E + 0.2*Q + 2*S)) over the
\* initiative's mean efficiency gain E, quality Q and employee satisfaction
\* S; an initiative with no operational sample scores 20.
C6_OperationalScoreFormula ==
    \A r \in Rows :
        LET os == OperationalOf(r.initiative_id)
            n == Len(os)
            raw == 4 * SumCol(os, "efficiency_gain_percentage")
                   + 2 * SumCol(os, "quality_score")
                   + 20 * SumCol(os, "employee_satisfaction")
            clamped == IF raw < 0 THEN 0 ELSE IF raw > 200 * n THEN 200 * n ELSE raw
            op == r.operational_score
        IN  /\ IsFin(op)
            /\ IF n = 0 THEN op = Num(20) ELSE op.n * 10 * n = clamped * op.d

C6_Witness ==
    /\ pc = "scored"
    /\ \E r \in Rows :
        /\ Len(OperationalOf(r.initiative_id)) = 2
        /\ r.operational_score = Fin(199, 10)

\* C7: the scorer returns exactly one row per input initiative, in the
\* input order and with the same ids, whatever the sample tables hold: no
\* sample, many samples, or samples of an id that is no initiative's.
C7_OneRowPerInitiative ==
    pc = "scored" =>
        /\ Len(health_df) = Len(initiatives)
        /\ \A i \in DOMAIN initiatives :
                health_df[i].initiative_id = initiatives[i].initiative_id

C7_Witness ==
    /\ pc = "scored"
    /\ Len(initiatives) = 2
    /\ Len(FinancialOf(1)) = 2
    /\ Len(FinancialOf(2)) = 0
    /\ Len(OperationalOf(0)) = 1
    /\ Len(OperationalOf(2)) = 1
    /\ Len(health_df) = 2

\* C8: a Completed initiative has time_score 25 and its predicted completion
\* date is its target end date, whatever its dates, budget, metrics and the
\* clock.
C8_CompletedIsOnTarget ==
    \A r \in Rows :
        r.status = "Completed" =>
            /\ r.time_score = 25
            /\ r.predicted_completion_date = r.target_end_date

C8_Witness ==
    /\ pc = "scored"
    /\ \E r \in Rows :
        /\ r.status = "Completed"
        /\ r.days_since_start = 1
        /\ r.total_duration = 30
        /\ r.budget_allocated = 0
        /\ r.predicted_completion_date = r.target_end_date

RiskOrder == <<"Budget Overrun", "Schedule Delay", "Low ROI", "Team Satisfaction">>

\* C9: risk_factors holds Budget Overrun iff utilization > 1.1, Schedule
\* Delay iff time_progress > 1.0 and the status is not Completed, Team
\* Satisfaction iff the initiative has operational samples whose mean
\* employee satisfaction is < 6; at most four tags, none twice, in the order
\* Budget Overrun, Schedule Delay, Low ROI, Team Satisfaction.
C9_RiskFactorTags ==
    \A r \in Rows :
        LET tags == Range(r.risk_factors)
            a == r.budget_allocated
            s == r.budget_spent
            dss == (now - r.start_date) \div TicksPerDay
            td == (r.target_end_date - r.start_date) \div TicksPerDay
            os == OperationalOf(r.initiative_id)
        IN  /\ "Budget Overrun" \in tags
                <=> (IF a > 0 THEN 10 * s > 11 * a ELSE a = 0 /\ s > 0)
            /\ "Schedule Delay" \in tags
                <=> /\ r.status # "Completed"
                    /\ IF td > 0 THEN dss > td
                       ELSE IF td < 0 THEN dss < td
                       ELSE dss > 0
            /\ "Team Satisfaction" \in tags
                <=> /\ Len(os) > 0
                    /\ SumCol(os, "employee_satisfaction") < 6 * Len(os)
            /\ Len(r.risk_factors) <= 4
            /\ r.risk_factors = SelectSeq(RiskOrder, LAMBDA t : t \in tags)

C9_Witness ==
    /\ pc = "scored"
    /\ \E r \in Rows :
        /\ r.risk_factors = RiskOrder
        /\ r.budget_utilization = Fin(13, 10)
        /\ r.employee_satisfaction = Num(5)

\* C10: risk_factors holds Low ROI iff the initiative's mean ROI is < 5, the
\* mean of an initiative with no financial sample counting as 0, so that
\* every initiative without financial samples carries Low ROI.
C10_LowRoiTag ==
    \A r \in Rows :
        LET fs == FinancialOf(r.initiative_id)
        IN  "Low ROI" \in Range(r.risk_factors)
                <=> (IF Len(fs) = 0 THEN 0 < 5
                     ELSE SumCol(fs, "roi_percentage") < 5 * Len(fs))

-----------------------------------------------------------------------------
(* Properties of the portfolio aggregation *)

RECURSIVE SumTo(_, _)
SumTo(f, n) == IF n = 0 THEN 0 ELSE f[n] + SumTo(f, n - 1)

\* the positions of the rows of health_df below a health_score of 50
Below50 == {i \in DOMAIN health_df : Lt(health_df[i].health_score, Num(50))}

\* the names of the rows at the positions S, in table order
NamesInOrder(names, S) ==
    /\ Len(names) = Cardinality(S)
    /\ \A i \in S : names[Cardinality({j \in S : j <= i})] = health_df[i].name

\* C11: the at_risk_initiatives bucket of the portfolio holds exactly the
\* rows with health_score < 50: count is their number, names their names in
\* table order, total_budget the sum of their budget_allocated, and these
\* are 0, empty and 0 when there is no such row.
C11_AtRiskBucket ==
    pc = "aggregated" =>
        LET b == portfolio_metrics.at_risk_initiatives
        IN  /\ b.count = Cardinality(Below50)
            /\ NamesInOrder(b.names, Below50)
            /\ b.total_budget =
                   Num(SumTo([i \in DOMAIN health_df |->
                                 IF i \in Below50 THEN health_df[i].budget_allocated
                                 ELSE 0], Len(health_df)))
            /\ Below50 = {} =>
                   b.count = 0 /\ b.total_budget = Num(0) /\ b.names = <<>>

\* a portfolio of two whose second initiative alone is at risk
C11_Witness ==
    /\ pc = "aggregated"
    /\ Below50 = {2}
    /\ portfolio_metrics.at_risk_initiatives.names = <<health_df[2].name>>
    /\ portfolio_metrics.at_risk_initiatives.total_budget = Num(100)

\* C12: the at-risk count of the portfolio equals the Critical count of its
\* health distribution, a row being in the bucket iff its health_status is
\* Critical, and the four counts of the distribution sum to
\* total_initiatives.
C12_AtRiskIsCritical ==
    pc = "aggregated" =>
        LET d == portfolio_metrics.health_distribution
        IN  /\ portfolio_metrics.at_risk_initiatives.count = d.critical
            /\ Below50 = {i \in DOMAIN health_df : health_df[i].health_status = "Critical"}
            /\ d.excellent + d.good + d.warning + d.critical
                   = portfolio_metrics.total_initiatives
            /\ portfolio_metrics.total_initiatives = Len(health_df)

\* a critical initiative next to one scored exactly 50
C12_Witness ==
    /\ pc = "aggregated"
    /\ portfolio_metrics.health_distribution.critical = 1
    /\ portfolio_metrics.health_distribution.warning = 1
    /\ \E i \in DOMAIN health_df : health_df[i].health_score = Num(50)

\* C13: portfolio_roi and budget_utilization_rate are always finite numbers:
\* the rate is 0 when the allocated budgets sum to 0 and the ROI is 0 when
\* the spent budgets sum to 0.
C13_ZeroSumSentinels ==
    pc = "aggregated" =>
        /\ IsFin(portfolio_metrics.budget_utilization_rate)
        /\ IsFin(portfolio_metrics.portfolio_roi)
        /\ SumCol(health_df, "budget_allocated") = 0 =>
               portfolio_metrics.budget_utilization_rate = Num(0)
        /\ SumCol(health_df, "budget_spent") = 0 =>
               portfolio_metrics.portfolio_roi = Num(0)

\* the positions of the rows predicted to complete from now to 30 days on
Next30Days ==
    {i \in DOMAIN health_df :
        /\ now <= health_df[i].predicted_completion_date
        /\ health_df[i].predicted_completion_date <= now + Days(30)}

\* C20: upcoming_completions holds exactly the initiatives whose
\* predicted_completion_date lies between the computation time and 30 days
\* after it, both included: names in table order, count their number.
C20_UpcomingWithin30Days ==
    pc = "aggregated" =>
        /\ NamesInOrder(portfolio_metrics.upcoming_completions.names, Next30Days)
        /\ portfolio_metrics.upcoming_completions.count
               = Len(portfolio_metrics.upcoming_completions.names)

-----------------------------------------------------------------------------
(* Properties of the executive summary *)

SummaryColumns ==
    {"metric_name", "current_value", "status", "description", "action_required"}

\* C14: create_executive_summary never raises, whatever the dict (a
\* total_initiatives of 0 included), and returns exactly four rows, Portfolio
\* ROI, Budget Utilization, At-Risk Initiatives, Completion Rate in this
\* order, each with the five columns.
C14_FourRowsWithoutRaising ==
    /\ result # "ZeroDivisionError"
    /\ pc = "summarized" =>
           /\ Column(executive_summary, "metric_name")
                  = <<"Portfolio ROI", "Budget Utilization", "At-Risk Initiatives",
                      "Completion Rate">>
           /\ \A i \in DOMAIN executive_summary :
                  DOMAIN executive_summary[i] = SummaryColumns

StatusOf(metric_name) ==
    LET i == CHOOSE j \in DOMAIN executive_summary :
                 executive_summary[j].metric_name = metric_name
    IN  executive_summary[i].status

\* C15: in the executive summary, Portfolio ROI is Good iff portfolio_roi >
\* 15, else Warning; Budget Utilization is Good iff the rate is in [80, 100],
\* else Warning; At-Risk Initiatives is Critical iff the at-risk count
\* exceeds 0.3 * total_initiatives, else Good (Good for an empty bucket);
\* Completion Rate is Good iff completed / total * 100 > 60, else Warning.
C15_SummaryStatuses ==
    pc = "summarized" =>
        LET roi == portfolio_metrics.portfolio_roi
            rate == portfolio_metrics.budget_utilization_rate
            at_risk == portfolio_metrics.at_risk_initiatives.count
            total == portfolio_metrics.total_initiatives
            completed == portfolio_metrics.completed_initiatives
        IN  /\ StatusOf("Portfolio ROI") =
                   IF (IsFin(roi) /\ roi.n > 15 * roi.d) \/ roi = PosInf
                   THEN "Good" ELSE "Warning"
            /\ StatusOf("Budget Utilization") =
                   IF IsFin(rate) /\ 80 * rate.d <= rate.n /\ rate.n <= 100 * rate.d
                   THEN "Good" ELSE "Warning"
            /\ StatusOf("At-Risk Initiatives") =
                   IF 10 * at_risk > 3 * total THEN "Critical" ELSE "Good"
            /\ at_risk = 0 => StatusOf("At-Risk Initiatives") = "Good"
            /\ StatusOf("Completion Rate") =
                   IF 5 * completed > 3 * total THEN "Good" ELSE "Warning"

\* a ROI of exactly 15, a rate of exactly 100, two initiatives of five at
\* risk and three of five completed
C15_Witness ==
    /\ pc = "summarized"
    /\ portfolio_metrics.portfolio_roi = Num(15)
    /\ portfolio_metrics.budget_utilization_rate = Num(100)
    /\ portfolio_metrics.at_risk_initiatives.count = 2
    /\ portfolio_metrics.completed_initiatives = 3
    /\ portfolio_metrics.total_initiatives = 5
    /\ Column(executive_summary, "status") = <<"Warning", "Good", "Critical", "Warning">>

-----------------------------------------------------------------------------
(* Properties of run_full_transformation *)

ArtifactKinds == {ArtifactWrites[i].kind : i \in DOMAIN ArtifactWrites}

\* the kinds of artifact of which run r wrote a file that is still there
KindsWrittenBy(r) ==
    {k \in ArtifactKinds :
        \/ k \in DOMAIN analytics.latest /\ analytics.latest[k].writer = r
        \/ \E f \in DOMAIN analytics.timestamped :
              f[1] = k /\ analytics.timestamped[f].writer = r}

\* C16: a run that finds fewer than three of the raw datasets aborts in its
\* loading step: it returns the empty result, has scored and aggregated
\* nothing, has written no artifact, and every file of data/analytics is as
\* it was.
C16_MissingInputAborts ==
    /\ [](pc = "aborted" =>
            /\ result = "empty"
            /\ health_df = <<>>
            /\ portfolio_metrics = NoMetrics
            /\ executive_summary = <<>>
            /\ written = 0
            /\ KindsWrittenBy(run) = {})
    /\ [][(pc = "start" /\ Cardinality(present) < 3) =>
             (pc' = "aborted" /\ analytics' = analytics)]_vars
    /\ [][pc = "aborted" => (pc' = "start" /\ analytics' = analytics)]_vars

\* a second run aborted with two datasets, the artifacts of the first in place
C16_Witness ==
    /\ pc = "aborted"
    /\ run = 2
    /\ Cardinality(present) = 2
    /\ KindsWrittenBy(1) = ArtifactKinds

\* C17: when a run has ended, by returning or by raising in a computation
\* step or in a write, it has written all three artifacts or none of them.
C17_AllOrNothing ==
    pc \in {"done", "failed", "aborted"} =>
        KindsWrittenBy(run) \in {{}, ArtifactKinds}

\* the timestamped files of the given kind whose name carries the clock of
\* the current run
SameClockFiles(kind) ==
    {f \in DOMAIN analytics.timestamped : f[1] = kind /\ f[2] = now}

DefaultedOperationalScore(id) ==
    IF Len(OperationalOf(id)) = 0
    THEN OperationalScore(NaNRow(OperationalCols))
    ELSE OperationalScore(
             [efficiency_gain_percentage |->
                  MeanCol(OperationalOf(id), "efficiency_gain_percentage"),
              quality_score |-> MeanCol(OperationalOf(id), "quality_score"),
              employee_satisfaction |-> NaN])

\* C19: over an operational table without the optional employee_satisfaction
\* column, the scorer does not raise and returns a row per initiative, the
\* absent metric scored with its default.
C19_MissingOptionalColumn ==
    (/\ ~HasColumns(operational, {"employee_satisfaction"})
     /\ pc \notin {"start", "aborted", "loaded"}) =>
        /\ result # "KeyError"
        /\ Len(health_df) = Len(initiatives)
        /\ \A i \in DOMAIN health_df :
               health_df[i].operational_score
                   = DefaultedOperationalScore(health_df[i].initiative_id)

-----------------------------------------------------------------------------
(* Properties of the schedule columns *)

\* whole days from the start date to the clock and to the target end date
ElapsedDays(r) == (now - r.start_date) \div TicksPerDay
PlannedDays(r) == (r.target_end_date - r.start_date) \div TicksPerDay

\* C21: a non-Completed initiative whose start_date is its target_end_date
\* is overdue whatever the clock, before the start date included: its
\* time_progress is in no band up to 1.2 and its time_score is 0.
C21_ZeroDurationIsOverdue ==
    \A r \in Rows :
        (r.status # "Completed" /\ r.start_date = r.target_end_date) =>
            /\ ~Le(r.time_progress, Fin(12, 10))
            /\ r.time_score = 0

\* time_progress > 0 and time_progress >= 0.1, on whole days
ProgressPositive(r) ==
    \/ ElapsedDays(r) * PlannedDays(r) > 0
    \/ PlannedDays(r) = 0 /\ ElapsedDays(r) > 0

ProgressAtLeastTenth(r) ==
    \/ PlannedDays(r) > 0 /\ 10 * ElapsedDays(r) >= PlannedDays(r)
    \/ PlannedDays(r) < 0 /\ 10 * ElapsedDays(r) <= PlannedDays(r)
    \/ PlannedDays(r) = 0 /\ ElapsedDays(r) > 0

ProgressNotPositive(r) ==
    \/ PlannedDays(r) # 0 /\ ElapsedDays(r) * PlannedDays(r) <= 0
    \/ PlannedDays(r) = 0 /\ ElapsedDays(r) < 0

\* days_since_start / max(time_progress, 0.1), a whole number of days
EstimatedTotalDays(r) ==
    IF PlannedDays(r) = 0 THEN 0
    ELSE IF ProgressAtLeastTenth(r) THEN PlannedDays(r)
    ELSE 10 * ElapsedDays(r)

\* C22: for an initiative that is not Completed, predicted_completion_date is
\* start_date + days_since_start / max(time_progress, 0.1) days when
\* time_progress > 0, and target_end_date when time_progress <= 0.
C22_PredictionExtrapolates ==
    \A r \in Rows :
        r.status # "Completed" =>
            /\ ProgressPositive(r) =>
                   r.predicted_completion_date
                       = r.start_date + EstimatedTotalDays(r) * TicksPerDay
            /\ ProgressNotPositive(r) =>
                   r.predicted_completion_date = r.target_end_date

\* one day into a plan of thirty: the floor applies, ten days predicted
C22_Witness ==
    /\ pc = "scored"
    /\ \E r \in Rows :
        /\ r.status = "In Progress"
        /\ r.days_since_start = 1
        /\ r.total_duration = 30
        /\ r.predicted_completion_date = r.start_date + Days(10)

\* C29: with start_date <= target_end_date, predicted_completion_date is
\* never later than target_end_date; for an initiative that is not Completed
\* and has time_progress >= 0.1 it is start_date plus the planned duration in
\* days, which is the target end date itself when the plan is a whole number
\* of days, also when the initiative is overdue.
C29_PredictionNeverLate ==
    \A r \in Rows :
        r.start_date <= r.target_end_date =>
            /\ r.predicted_completion_date <= r.target_end_date
            /\ (r.status # "Completed" /\ ProgressAtLeastTenth(r)) =>
                   /\ r.predicted_completion_date
                          = r.start_date + PlannedDays(r) * TicksPerDay
                   /\ (r.target_end_date - r.start_date) % TicksPerDay = 0 =>
                          r.predicted_completion_date = r.target_end_date

\* the statement with the extrapolation landing on the target end date itself
C29_ExtrapolationIsTargetDate ==
    \A r \in Rows :
        r.start_date <= r.target_end_date =>
            /\ r.predicted_completion_date <= r.target_end_date
            /\ (r.status # "Completed" /\ ProgressAtLeastTenth(r)) =>
                   r.predicted_completion_date = r.target_end_date

\* three days past the end of a plan of ten days, not completed
C29_Witness ==
    /\ pc = "scored"
    /\ \E r \in Rows :
        /\ r.status = "At Risk"
        /\ r.days_since_start = 13
        /\ r.total_duration = 10
        /\ r.predicted_completion_date = r.target_end_date

-----------------------------------------------------------------------------
(* Properties of the portfolio totals *)

\* the sum of an integer column of a raw table, row by row
RawTotal(df, col) == SumTo([i \in DOMAIN df |-> df[i][col]], Len(df))

\* C23: total_financial_impact is the sum of revenue_impact plus the sum of
\* cost_reduction over every sample of the raw financial table, the samples
\* of no initiative included; with a non-zero total spent, portfolio_roi is
\* (total_financial_impact / total_budget_spent - 1) * 100 and
\* budget_utilization_rate is total_budget_spent / total_budget_allocated *
\* 100, the totals taken over all initiatives.
C23_PortfolioTotals ==
    pc = "aggregated" =>
        LET impact == RawTotal(financial, "revenue_impact")
                          + RawTotal(financial, "cost_reduction")
            spent == RawTotal(initiatives, "budget_spent")
            allocated == RawTotal(initiatives, "budget_allocated")
            roi == portfolio_metrics.portfolio_roi
            rate == portfolio_metrics.budget_utilization_rate
        IN  /\ portfolio_metrics.total_financial_impact = Num(impact)
            /\ portfolio_metrics.total_budget_spent = Num(spent)
            /\ portfolio_metrics.total_budget_allocated = Num(allocated)
            /\ spent # 0 =>
                   /\ IsFin(roi)
                   /\ roi.n * spent = 100 * (impact - spent) * roi.d
                   /\ IF allocated # 0
                      THEN IsFin(rate) /\ rate.n * allocated = 100 * spent * rate.d
                      ELSE rate = IF spent > 0 THEN PosInf ELSE NegInf

\* one initiative that spent 85 of 100, one sample of it and one sample of
\* no initiative: an impact of 300 over 85
C23_Witness ==
    /\ pc = "aggregated"
    /\ Len(initiatives) = 1
    /\ Len(financial) = 2
    /\ \E i \in DOMAIN financial : financial[i].initiative_id = 2
    /\ \E i \in DOMAIN financial : financial[i].initiative_id = 1
    /\ portfolio_metrics.total_financial_impact = Num(300)
    /\ portfolio_metrics.portfolio_roi = Fin(21500, 85)
    /\ portfolio_metrics.budget_utilization_rate = Num(85)

\* the rows of health_df of a type
OfTypeRows(t) == SelectSeq(health_df, LAMBDA r : r.type = t)

\* reported is exact rounded to a nearest hundredth, or both are nan
NearestHundredth(reported, exact) ==
    IF IsNaN(exact) THEN IsNaN(reported)
    ELSE /\ IsFin(reported)
         /\ 100 % reported.d = 0
         /\ 200 * Abs(reported.n * exact.d - exact.n * reported.d)
                <= reported.d * exact.d

\* the mean of the values that are not nan, nan when there is none
MeanOf(values) ==
    LET known == SelectSeq(values, LAMBDA x : ~IsNaN(x))
    IN  IF Len(known) = 0 THEN NaN ELSE Div(SumNums(known), Num(Len(known)))

\* the health_score and roi_percentage entries of performance_by_type
MeansByType(p) ==
    /\ DOMAIN p.health_score = {health_df[i].type : i \in DOMAIN health_df}
    /\ DOMAIN p.budget_allocated = DOMAIN p.health_score
    /\ DOMAIN p.roi_percentage = DOMAIN p.health_score
    /\ \A t \in DOMAIN p.health_score :
           /\ NearestHundredth(p.health_score[t],
                               MeanOf(Column(OfTypeRows(t), "health_score")))
           /\ NearestHundredth(p.roi_percentage[t],
                               MeanOf(Column(OfTypeRows(t), "roi_percentage")))

DerivedColumns ==
    {"budget_utilization", "budget_score", "days_since_start", "total_duration",
     "time_progress", "time_score", "financial_score", "operational_score",
     "health_score", "health_status", "predicted_completion_date", "risk_factors"}
        \cup FinancialCols \cup OperationalCols

\* C27: the scorer and the portfolio aggregation leave the initiatives, the
\* financial samples and the operational samples as they were; the derived
\* columns are on the returned table only.
C27_InputsUnchanged ==
    /\ [][datasets' = datasets]_vars
    /\ [](\A i \in DOMAIN initiatives :
             DOMAIN initiatives[i] \cap DerivedColumns = {})
    /\ [](\A i \in DOMAIN health_df :
             DOMAIN health_df[i] = DOMAIN initiatives[1] \cup DerivedColumns)

\* scored and aggregated over a table with samples
C27_Witness ==
    /\ pc = "aggregated"
    /\ Len(financial) > 0
    /\ Len(health_df) = 2
    /\ "health_score" \in DOMAIN health_df[1]
    /\ "health_score" \notin DOMAIN initiatives[1]
    /\ portfolio_metrics.total_initiatives = 2

-----------------------------------------------------------------------------
(* Properties of the rows and of the files of a run *)

\* C28: in every row of the executive summary action_required is 'None' if
\* and only if the status of the row is 'Good'.
C28_ActionIffNotGood ==
    pc = "summarized" =>
        \A i \in DOMAIN executive_summary :
            (executive_summary[i].action_required = "None")
                <=> (executive_summary[i].status = "Good")

\* the current run wrote the copy of the kind that is still there
WroteLatest(k) ==
    k \in DOMAIN analytics.latest /\ analytics.latest[k].writer = run

WroteTimestamped(k) ==
    \E f \in DOMAIN analytics.timestamped :
        f[1] = k /\ analytics.timestamped[f].writer = run

\* C25: a run that succeeded has written a timestamped copy and the latest
\* copy of each of the three artifacts, and the latest copy of an artifact is
\* never written before its timestamped copy.
C25_BothCopiesOfEach ==
    /\ pc = "done" =>
           \A k \in ArtifactKinds : WroteTimestamped(k) /\ WroteLatest(k)
    /\ \A k \in ArtifactKinds : WroteLatest(k) => WroteTimestamped(k)

\* the steps of a run, in the order they may follow each other
StageOrder ==
    {<<"start", "loaded">>, <<"start", "aborted">>,
     <<"loaded", "scored">>, <<"loaded", "failed">>,
     <<"scored", "aggregated">>,
     <<"aggregated", "summarized">>, <<"aggregated", "failed">>,
     <<"summarized", "done">>, <<"summarized", "failed">>,
     <<"done", "start">>, <<"aborted", "start">>, <<"failed", "start">>}

\* C26: the stages of a run follow each other in the order load, health
\* scoring, portfolio aggregation, executive summary, persist; no file is
\* written by a run before its executive summary is computed, and a run that
\* failed in a computation stage has written no file.
C26_StagesInOrder ==
    /\ [][pc' # pc => <<pc, pc'>> \in StageOrder]_vars
    /\ [](portfolio_metrics # NoMetrics => health_df # <<>>)
    /\ [](executive_summary # <<>> => portfolio_metrics # NoMetrics)
    /\ [](KindsWrittenBy(run) # {} =>
             executive_summary # <<>> /\ pc \in {"summarized", "done", "failed"})
    /\ []((pc = "failed" /\ result \in {"KeyError", "ZeroDivisionError"}) =>
             KindsWrittenBy(run) = {} /\ written = 0)

\* a second run that failed in the scorer, the clock having moved
C26_Witness ==
    /\ pc = "failed"
    /\ result = "KeyError"
    /\ run = 2
    /\ health_df = <<>>
    /\ analytics = NoArtifacts

\* the runs that wrote a file that is still in data/analytics
Writers ==
    {analytics.latest[k].writer : k \in DOMAIN analytics.latest}
        \cup {analytics.timestamped[f].writer : f \in DOMAIN analytics.timestamped}

\* C30: between two runs, whatever runs succeeded, aborted or failed
\* before, the three latest files were written by one run, the most recent
\* of the runs that wrote a file.
C30_LatestFromOneRun ==
    (pc \in {"done", "failed", "aborted"} /\ Writers # {}) =>
        /\ DOMAIN analytics.latest = ArtifactKinds
        /\ \A k \in ArtifactKinds :
               \A w \in Writers : analytics.latest[k].writer >= w

====
